---- MODULE Spec2Model ----
(***************************************************************************)
(* Model of src/git.rs: compare_branches and its helpers.                  *)
(*                                                                         *)
(* A Rust String is a sequence of one-character strings.  A Commit is a    *)
(* record [date, summary].  Option<Vec<String>> is a record                *)
(* [some, words]; None is [some |-> FALSE, words |-> <<>>].                *)
(***************************************************************************)
EXTENDS Integers, Sequences, FiniteSets, TLC

VARIABLES
    pc,               \* position inside compare_branches
    exclude,          \* the exclude argument
    spawned,          \* history of external git invocations, with outcome
    raw1,             \* stdout of `git log branch1`
    raw2,             \* stdout of `git log branch2`
    branch1_commits,  \* commits parsed from branch1 (commits1 of compare)
    branch2_commits,  \* commits parsed from branch2 (commits2 of compare)
    result            \* what compare_branches (or compare) produced

vars == <<pc, exclude, spawned, raw1, raw2, branch1_commits, branch2_commits, result>>

----------------------------------------------------------------------------
(* Bounds and vocabularies *)

MaxLines == 2      \* lines in a branch log / commits in a list
MaxExclude == 1    \* entries in an exclusion list

BAR == "|"
NL == "\n"

Cat3(a, b, c) == a \o <<BAR>> \o b \o <<BAR>> \o c

\* sequences over S of length at most n
RECURSIVE SeqsUpTo(_, _)
SeqsUpTo(S, n) ==
    IF n = 0 THEN { <<>> }
    ELSE LET shorter == SeqsUpTo(S, n - 1)
         IN  shorter \cup { Append(s, x) : s \in { t \in shorter : Len(t) = n - 1 }, x \in S }

Hash == <<"h">>
Date1 == <<"1">>
Date2 == <<"2">>
SubjA == <<"a">>
SubjAB == <<"a", "b">>
SubjC == <<"c">>
SubjBar == <<"a", BAR, "b">>     \* a subject that itself holds a '|'

\* lines git can print for --pretty=format:%h|%ad|%s, and lines that are not of that form
GoodLines == { Cat3(Hash, Date1, SubjA), Cat3(Hash, Date2, SubjC),
               Cat3(Hash, Date1, SubjAB), Cat3(Hash, Date2, SubjBar) }
BadLines == { <<>>, Hash \o <<BAR>> \o Date1 }
LogLines == GoodLines \cup BadLines

RECURSIVE Join(_)
Join(ls) ==
    IF Len(ls) = 0 THEN <<>>
    ELSE IF Len(ls) = 1 THEN ls[1]
    ELSE ls[1] \o <<NL>> \o Join(Tail(ls))

\* what git log may write to stdout
RawLogs == { Join(ls) : ls \in SeqsUpTo(LogLines, MaxLines) }

Words == { <<>>, <<"a">>, <<"b">> }
None == [some |-> FALSE, words |-> <<>>]
Some(ws) == [some |-> TRUE, words |-> ws]
Excludes == { None } \cup { Some(ws) : ws \in SeqsUpTo(Words, MaxExclude) }

Commit(d, s) == [date |-> d, summary |-> s]
Commits == { Commit(d, s) : d \in { Date1, Date2 }, s \in { SubjA, SubjAB, <<"b">> } }

----------------------------------------------------------------------------
(* Pure helpers *)

\* the chosen elements of seq, by increasing index
RECURSIVE Pick(_, _)
Pick(seq, S) ==
    IF S = {} THEN <<>>
    ELSE LET m == CHOOSE x \in S : \A y \in S : x <= y
         IN  << seq[m] >> \o Pick(seq, S \ { m })

\* a variant of contains that matches at the start of s only (starts_with)
contains_prefix(s, w) ==
    Len(w) <= Len(s) /\ SubSeq(s, 1, Len(w)) = w

\* a variant of contains in which the empty word matches nothing
contains_nonempty(s, w) ==
    /\ w # <<>>
    /\ \E i \in 0 .. (Len(s) - Len(w)) : SubSeq(s, i + 1, i + Len(w)) = w

\* str::contains(&String): is w a contiguous substring of s
contains(s, w) ==
    \E i \in 0 .. (Len(s) - Len(w)) : SubSeq(s, i + 1, i + Len(w)) = w

\* str::split(c).collect(): every occurrence of c separates two fields
RECURSIVE split(_, _)
split(s, c) ==
    IF \A i \in 1 .. Len(s) : s[i] # c THEN << s >>
    ELSE LET i == CHOOSE k \in 1 .. Len(s) :
                      s[k] = c /\ \A j \in 1 .. (k - 1) : s[j] # c
         IN  << SubSeq(s, 1, i - 1) >> \o split(SubSeq(s, i + 1, Len(s)), c)

\* parse_git_output: str::lines() drops the empty piece after a final newline
parse_git_output(raw) ==
    LET parts == split(raw, NL)
    IN  IF parts[Len(parts)] = <<>> THEN SubSeq(parts, 1, Len(parts) - 1) ELSE parts

Pending == [tag |-> "Pending", commits |-> <<>>, msg |-> ""]
Ok(cs) == [tag |-> "Ok", commits |-> cs, msg |-> ""]
Err(m) == [tag |-> "Err", commits |-> <<>>, msg |-> m]
Panic(m) == [tag |-> "Panic", commits |-> <<>>, msg |-> m]

\* a variant of parse_commit_message that skips a line with fewer than 3 fields
parse_commit_message_skip(msg, excl) ==
    LET fields == split(msg, BAR)
    IN  IF Len(fields) < 3 THEN [tag |-> "None", commit |-> Commit(<<>>, <<>>)]
        ELSE LET summary == fields[3]
             IN  IF excl.some /\ \E k \in 1 .. Len(excl.words) : contains(summary, excl.words[k])
                 THEN [tag |-> "None", commit |-> Commit(<<>>, <<>>)]
                 ELSE [tag |-> "Some", commit |-> Commit(fields[2], summary)]

\* a variant of parse_commit_message without the exclusion test
parse_commit_message_nofilter(msg, excl) ==
    LET fields == split(msg, BAR)
    IN  IF Len(fields) < 3 THEN [tag |-> "Panic", commit |-> Commit(<<>>, <<>>)]
        ELSE [tag |-> "Some", commit |-> Commit(fields[2], fields[3])]

\* parse_commit_message: Option<Commit>, or a panic at fields[2]
parse_commit_message(msg, excl) ==
    LET fields == split(msg, BAR)
    IN  IF Len(fields) < 3 THEN [tag |-> "Panic", commit |-> Commit(<<>>, <<>>)]
        ELSE LET summary == fields[3]
             IN  IF excl.some /\ \E k \in 1 .. Len(excl.words) : contains(summary, excl.words[k])
                 THEN [tag |-> "None", commit |-> Commit(<<>>, <<>>)]
                 ELSE [tag |-> "Some", commit |-> Commit(fields[2], summary)]

\* into_iter().filter_map(parse_commit_message).collect(), stopping at the first panic
RECURSIVE filter_map(_, _)
filter_map(msgs, excl) ==
    IF Len(msgs) = 0 THEN [panicked |-> FALSE, commits |-> <<>>]
    ELSE LET r == parse_commit_message(msgs[1], excl)
         IN  IF r.tag = "Panic" THEN [panicked |-> TRUE, commits |-> <<>>]
             ELSE LET rest == filter_map(Tail(msgs), excl)
                  IN  IF rest.panicked THEN rest
                      ELSE IF r.tag = "Some"
                           THEN [panicked |-> FALSE, commits |-> << r.commit >> \o rest.commits]
                           ELSE rest

\* a variant of compare that never looks at commits2
compare_nohash(commits1, commits2, excl) ==
    LET word_to_exclude == IF excl.some THEN excl.words ELSE <<>>
        keep(commit) ==
            ~\E k \in 1 .. Len(word_to_exclude) : contains(commit.summary, word_to_exclude[k])
    IN  SelectSeq(commits1, keep)

\* a variant of compare that keeps one commit per summary
compare_dedup(commits1, commits2, excl) ==
    LET hash == { commits2[i].summary : i \in 1 .. Len(commits2) }
        word_to_exclude == IF excl.some THEN excl.words ELSE <<>>
        kept == { i \in 1 .. Len(commits1) :
                    /\ commits1[i].summary \notin hash
                    /\ ~\E k \in 1 .. Len(word_to_exclude) :
                            contains(commits1[i].summary, word_to_exclude[k])
                    /\ \A j \in 1 .. (i - 1) : commits1[j].summary # commits1[i].summary }
    IN  Pick(commits1, kept)

\* a variant of compare that returns the kept commits newest last
compare_rev(commits1, commits2, excl) ==
    LET hash == { commits2[i].summary : i \in 1 .. Len(commits2) }
        word_to_exclude == IF excl.some THEN excl.words ELSE <<>>
        keep(commit) ==
            /\ commit.summary \notin hash
            /\ ~\E k \in 1 .. Len(word_to_exclude) : contains(commit.summary, word_to_exclude[k])
        r == SelectSeq(commits1, keep)
    IN  [i \in 1 .. Len(r) |-> r[Len(r) + 1 - i]]

\* compare: commits of commits1 whose summary is not in commits2 and holds no excluded word
compare(commits1, commits2, excl) ==
    LET hash == { commits2[i].summary : i \in 1 .. Len(commits2) }
        word_to_exclude == IF excl.some THEN excl.words ELSE <<>>
        keep(commit) ==
            LET contains_excluded_word ==
                    \E k \in 1 .. Len(word_to_exclude) : contains(commit.summary, word_to_exclude[k])
            IN  commit.summary \notin hash /\ ~contains_excluded_word
    IN  SelectSeq(commits1, keep)

----------------------------------------------------------------------------
(* compare_branches, step by step *)

Init ==
    /\ pc = "rev_parse"
    /\ exclude \in Excludes
    /\ spawned = <<>>
    /\ raw1 = <<>>
    /\ raw2 = <<>>
    /\ branch1_commits = <<>>
    /\ branch2_commits = <<>>
    /\ result = Pending

Spawn(cmd, outcome) == Append(spawned, [cmd |-> cmd, outcome |-> outcome])

\* a variant of RevParse that does not test the exit status
RevParse_nostatus ==
    /\ pc = "rev_parse"
    /\ \E outcome \in { "spawn_error", "exit_failure", "success" } :
          /\ spawned' = Spawn("rev-parse", outcome)
          /\ IF outcome = "spawn_error"
             THEN pc' = "done" /\ result' = Err("ExecutionFailure")
             ELSE pc' = "fetch1" /\ result' = result
    /\ UNCHANGED <<exclude, raw1, raw2, branch1_commits, branch2_commits>>

\* lines 18-34: git rev-parse --show-toplevel
RevParse ==
    /\ pc = "rev_parse"
    /\ \E outcome \in { "spawn_error", "exit_failure", "success" } :
          /\ spawned' = Spawn("rev-parse", outcome)
          /\ IF outcome = "spawn_error"
             THEN pc' = "done" /\ result' = Err("ExecutionFailure")
             ELSE IF outcome = "exit_failure"
             THEN pc' = "done" /\ result' = Err("Not inside a Git repository")
             ELSE pc' = "fetch1" /\ result' = result
    /\ UNCHANGED <<exclude, raw1, raw2, branch1_commits, branch2_commits>>

\* line 36: get_branch_commits(&repo_path, branch1).unwrap()
GetBranchCommits1 ==
    /\ pc = "fetch1"
    /\ \/ /\ spawned' = Spawn("log1", "spawn_error")
          /\ pc' = "done"
          /\ result' = Panic("unwrap on Err")
          /\ raw1' = raw1
       \/ /\ spawned' = Spawn("log1", "exit_failure")
          /\ pc' = "fetch2"
          /\ raw1' = <<>>
          /\ result' = result
       \/ \E out \in RawLogs :
            /\ spawned' = Spawn("log1", "success")
            /\ pc' = "fetch2"
            /\ raw1' = out
            /\ result' = result
    /\ UNCHANGED <<exclude, raw2, branch1_commits, branch2_commits>>

\* line 37: get_branch_commits(&repo_path, branch2).unwrap()
GetBranchCommits2 ==
    /\ pc = "fetch2"
    /\ \/ /\ spawned' = Spawn("log2", "spawn_error")
          /\ pc' = "done"
          /\ result' = Panic("unwrap on Err")
          /\ raw2' = raw2
       \/ /\ spawned' = Spawn("log2", "exit_failure")
          /\ pc' = "parse1"
          /\ raw2' = <<>>
          /\ result' = result
       \/ \E out \in RawLogs :
            /\ spawned' = Spawn("log2", "success")
            /\ pc' = "parse1"
            /\ raw2' = out
            /\ result' = result
    /\ UNCHANGED <<exclude, raw1, branch1_commits, branch2_commits>>

\* lines 39, 41-44: branch1_commits
ParseBranch1 ==
    /\ pc = "parse1"
    /\ LET r == filter_map(parse_git_output(raw1), exclude)
       IN  IF r.panicked
           THEN pc' = "done" /\ result' = Panic("index out of bounds")
                /\ branch1_commits' = branch1_commits
           ELSE pc' = "parse2" /\ result' = result /\ branch1_commits' = r.commits
    /\ UNCHANGED <<exclude, spawned, raw1, raw2, branch2_commits>>

\* lines 40, 45-48: branch2_commits
ParseBranch2 ==
    /\ pc = "parse2"
    /\ LET r == filter_map(parse_git_output(raw2), exclude)
       IN  IF r.panicked
           THEN pc' = "done" /\ result' = Panic("index out of bounds")
                /\ branch2_commits' = branch2_commits
           ELSE pc' = "compare" /\ result' = result /\ branch2_commits' = r.commits
    /\ UNCHANGED <<exclude, spawned, raw1, raw2, branch1_commits>>

\* lines 50-52: compare(...) and Ok(commits)
Compare ==
    /\ pc = "compare"
    /\ result' = Ok(compare(branch1_commits, branch2_commits, exclude))
    /\ pc' = "done"
    /\ UNCHANGED <<exclude, spawned, raw1, raw2, branch1_commits, branch2_commits>>

Next ==
    \/ RevParse
    \/ GetBranchCommits1
    \/ GetBranchCommits2
    \/ ParseBranch1
    \/ ParseBranch2
    \/ Compare

Spec == Init /\ [][Next]_vars

----------------------------------------------------------------------------
(* compare as a function of arbitrary arguments *)

InitCompare ==
    /\ pc = "compare"
    /\ exclude \in Excludes
    /\ spawned = <<>>
    /\ raw1 = <<>>
    /\ raw2 = <<>>
    /\ branch1_commits \in SeqsUpTo(Commits, MaxLines)
    /\ branch2_commits \in SeqsUpTo(Commits, MaxLines)
    /\ result = Pending

NextCompare == Compare

SpecCompare == InitCompare /\ [][NextCompare]_vars

----------------------------------------------------------------------------
(* Vocabulary of the properties, stated without the operators of the model *)

\* w occurs in s as a contiguous run of characters
IsSubstring(w, s) ==
    \E i \in 1 .. (Len(s) + 1) : \E j \in (i - 1) .. Len(s) : SubSeq(s, i, j) = w

\* out consists of elements of inp, taken in inp's order
OrderedSubseq(out, inp) ==
    \E S \in SUBSET (1 .. Len(inp)) : out = Pick(inp, S)

Summaries(cs) == { cs[i].summary : i \in 1 .. Len(cs) }
Elems(cs) == { cs[i] : i \in 1 .. Len(cs) }

\* positions of '|' in a line
Bars(line) == { i \in 1 .. Len(line) : line[i] = BAR }
FieldCount(line) == Cardinality(Bars(line)) + 1
WellFormed(line) == FieldCount(line) >= 3
FirstBar(line) == CHOOSE i \in Bars(line) : \A j \in Bars(line) : i <= j
SecondBar(line) ==
    CHOOSE i \in Bars(line) \ { FirstBar(line) } :
        \A j \in Bars(line) \ { FirstBar(line) } : i <= j
\* the Commit a line <hash>|<date>|<summary> stands for
DateField(line) == SubSeq(line, FirstBar(line) + 1, SecondBar(line) - 1)
RestAfterSecondBar(line) == SubSeq(line, SecondBar(line) + 1, Len(line))
\* the text between the second '|' and the next one, or the end of the line
ThirdField(line) ==
    LET later == { i \in Bars(line) : i > SecondBar(line) }
        stop == IF later = {} THEN Len(line) + 1
                ELSE CHOOSE i \in later : \A j \in later : i <= j
    IN  SubSeq(line, SecondBar(line) + 1, stop - 1)

lines1 == parse_git_output(raw1)
lines2 == parse_git_output(raw2)

\* both git log invocations ran and produced an Output
Fetched ==
    /\ Len(spawned) = 3
    /\ spawned[2].outcome # "spawn_error"
    /\ spawned[3].outcome # "spawn_error"

Returned == pc = "done" /\ result.tag = "Ok"

----------------------------------------------------------------------------
(* Claims *)

\* C1: no commit returned by compare has a summary equal to the summary of a
\* commit of commits2, and every commit returned is an element of commits1,
\* whatever the exclusion list.
C1_OutputIsAMinusB ==
    pc = "done" =>
        \A k \in 1 .. Len(result.commits) :
            /\ result.commits[k].summary \notin Summaries(branch2_commits)
            /\ result.commits[k] \in Elems(branch1_commits)

C1_Witness ==
    /\ pc = "done"
    /\ exclude.some
    /\ exclude.words # <<>>
    /\ result.commits # <<>>
    /\ Len(result.commits) < Len(branch1_commits)
    /\ Summaries(branch1_commits) \cap Summaries(branch2_commits) # {}
    /\ Summaries(branch2_commits) \ Summaries(branch1_commits) # {}

\* C2: without an exclusion list and with no summary shared between commits1
\* and commits2, compare returns commits1 itself, duplicates included.
C2_DisjointReturnsA ==
    (/\ pc = "done"
     /\ ~exclude.some
     /\ Summaries(branch1_commits) \cap Summaries(branch2_commits) = {})
        => result.commits = branch1_commits

C2_Witness ==
    /\ pc = "done"
    /\ ~exclude.some
    /\ branch2_commits = <<>>
    /\ Len(branch1_commits) = 2
    /\ branch1_commits[1].summary = branch1_commits[2].summary
    /\ branch1_commits[1].date # branch1_commits[2].date
    /\ result.commits = branch1_commits

\* C3: the commits compare returns are commits of commits1 in the order of
\* commits1, and the commits parsed from a branch log follow the order of its
\* lines.
C3_OrderPreserved ==
    /\ Returned => OrderedSubseq(result.commits, branch1_commits)
    /\ pc \in { "parse2", "compare" } \/ Returned =>
          OrderedSubseq(branch1_commits,
                        [i \in 1 .. Len(lines1) |-> Commit(DateField(lines1[i]), ThirdField(lines1[i]))])
    /\ pc = "compare" \/ Returned =>
          OrderedSubseq(branch2_commits,
                        [i \in 1 .. Len(lines2) |-> Commit(DateField(lines2[i]), ThirdField(lines2[i]))])

C3_Witness ==
    /\ Returned
    /\ Len(result.commits) = 2
    /\ result.commits[1] # result.commits[2]
    /\ result.commits = branch1_commits
    /\ Len(lines1) = 2

\* C4: with an exclusion list, no commit compare_branches returns has a
\* summary in which an entry of the list occurs.
C4_NoExcludedInResult ==
    (Returned /\ exclude.some) =>
        \A k \in 1 .. Len(result.commits) : \A n \in 1 .. Len(exclude.words) :
            ~IsSubstring(exclude.words[n], result.commits[k].summary)

C4_Witness ==
    /\ Returned
    /\ exclude.some
    /\ exclude.words # <<>>
    /\ result.commits # <<>>
    /\ Len(result.commits) < Len(lines1)
    /\ branch2_commits = <<>>

\* C5: when git rev-parse exits with a failure status, compare_branches
\* returns the "Not inside a Git repository" error and git log is never run;
\* git log runs only after a successful git rev-parse.
C5_NotARepositoryStopsBeforeFetch ==
    /\ \A i \in 1 .. Len(spawned) :
          (spawned[i].cmd = "rev-parse" /\ spawned[i].outcome = "exit_failure") =>
              /\ pc = "done"
              /\ result = Err("Not inside a Git repository")
              /\ Len(spawned) = 1
    /\ \A i \in 1 .. Len(spawned) :
          spawned[i].cmd \in { "log1", "log2" } =>
              /\ i > 1
              /\ spawned[1] = [cmd |-> "rev-parse", outcome |-> "success"]

C5_Witness ==
    /\ pc = "done"
    /\ result = Err("Not inside a Git repository")
    /\ spawned = << [cmd |-> "rev-parse", outcome |-> "exit_failure"] >>

\* C6: a failure to spawn git in any of the three invocations reaches the
\* caller as the error value ExecutionFailure, each invocation being made once.
C6_SpawnFailureIsErrValue ==
    /\ \A i \in 1 .. Len(spawned) :
          spawned[i].outcome = "spawn_error" => result = Err("ExecutionFailure")
    /\ \A i, j \in 1 .. Len(spawned) : spawned[i].cmd = spawned[j].cmd => i = j

\* C7: when a line of either branch log has fewer than 3 fields, the
\* operation ends in the out-of-bounds panic of parse_commit_message and
\* returns no commit list.
C7_MalformedLinePanics ==
    (/\ pc = "done"
     /\ Fetched
     /\ \E i \in 1 .. Len(lines1 \o lines2) : ~WellFormed((lines1 \o lines2)[i]))
        => result = Panic("index out of bounds")

C7_Witness ==
    /\ pc = "done"
    /\ Fetched
    /\ lines1 # <<>>
    /\ \A i \in 1 .. Len(lines1) : WellFormed(lines1[i])
    /\ Len(lines2) = 2
    /\ lines2[1] = <<>>
    /\ WellFormed(lines2[2])
    /\ result = Panic("index out of bounds")

\* C8: a line <hash>|<date>|<summary> that is not excluded is parsed into the
\* Commit whose date is the second field and whose summary is all the text
\* after the second '|'.
C8_SummaryIsRestOfLine ==
    (/\ pc = "parse2"
     /\ ~exclude.some)
        => branch1_commits =
             [i \in 1 .. Len(lines1) |-> Commit(DateField(lines1[i]), RestAfterSecondBar(lines1[i]))]

\* C9: every commit handed to compare as commits1 is free of exclusion
\* entries, and the result of compare_branches is the result compare gives
\* without the exclusion list.
C9_DiffTimeExclusionIsDead ==
    /\ \A k \in 1 .. Len(branch1_commits) : \A n \in 1 .. Len(exclude.words) :
          ~IsSubstring(exclude.words[n], branch1_commits[k].summary)
    /\ Returned => result.commits = compare(branch1_commits, branch2_commits, None)

C9_Witness ==
    /\ Returned
    /\ exclude.some
    /\ exclude.words # <<>>
    /\ Len(branch1_commits) < Len(lines1)
    /\ result.commits # <<>>
    /\ branch2_commits # <<>>

\* what lines 39-52 give for the fetched logs under exclusion list excl
PipelineWith(excl) ==
    LET p1 == filter_map(lines1, excl)
        p2 == filter_map(lines2, excl)
    IN  IF p1.panicked \/ p2.panicked THEN Panic("index out of bounds")
        ELSE Ok(compare(p1.commits, p2.commits, excl))

\* C10: an exclusion list without entries gives the result an absent list
\* gives; a list holding the empty string drops every well-formed line, so
\* compare_branches returns the empty sequence whenever the logs are well formed.
C10_EmptyListAndEmptyWord ==
    /\ (pc = "done" /\ Fetched /\ exclude = Some(<<>>)) => result = PipelineWith(None)
    /\ (/\ pc = "done"
        /\ Fetched
        /\ exclude.some
        /\ \E n \in 1 .. Len(exclude.words) : exclude.words[n] = <<>>
        /\ \A i \in 1 .. Len(lines1 \o lines2) : WellFormed((lines1 \o lines2)[i]))
          => /\ result = Ok(<<>>)
             /\ branch1_commits = <<>>
             /\ branch2_commits = <<>>

C10_Witness ==
    /\ Returned
    /\ exclude.some
    /\ \E n \in 1 .. Len(exclude.words) : exclude.words[n] = <<>>
    /\ Len(lines1) = 2
    /\ lines2 # <<>>
    /\ result.commits = <<>>

====
